---------------------------- MODULE Spec2Model ----------------------------
(***************************************************************************)
(* A model of mosaic_traj: the ROTRAJ trajectory reader (read_traj.py),    *)
(* the thermodynamic helper (thermo.py) and the attribute lookup of the    *)
(* plotting entry points (plot_hm.py, plot_ts.py).                         *)
(*                                                                         *)
(* The program is sequential.  A behaviour is one call of one entry point: *)
(* Init draws the call and its arguments, the pure functions are operators *)
(* applied in one step, and the entry points that change process state or  *)
(* call each other (read_data, plot_hm, main of plot_ts) advance through   *)
(* their statements with pc.                                               *)
(***************************************************************************)
EXTENDS Integers, Sequences, FiniteSets, TLC

VARIABLES
    call,   \* the entry point called and its arguments
    pc,     \* position in the called code
    ret,    \* outcome of the call once pc = "done"
    cwd,    \* the process working directory
    rd,     \* the frame of read_data
    pl      \* the frame of the plotting entry point

vars == <<call, pc, ret, cwd, rd, pl>>

(***************************************************************************)
(* Bounds of the model.                                                    *)
(***************************************************************************)
MaxTraj == 4        \* declared total number of trajectories, 1..MaxTraj
MaxClust == 2       \* declared number of clusters, 1..MaxClust
MaxBlocks == 3      \* trajectory blocks held by a file, 0..MaxBlocks
MaxDays == 2        \* calendar days a date range spans, days 0..MaxDays

(***************************************************************************)
(* Program constants.                                                      *)
(***************************************************************************)
DAYSECONDS == 86400
nts == 88

(***************************************************************************)
(* Python values.  A number is the rational num/den with its Python type;  *)
(* None, str and list values carry their type only where the code looks at *)
(* nothing else.                                                           *)
(***************************************************************************)
PyNone == [type |-> "NoneType", num |-> 0, den |-> 1]
PyInt(n) == [type |-> "int", num |-> n, den |-> 1]
PyFloat(n, d) == [type |-> "float", num |-> n, den |-> d]
PyStr == [type |-> "str", num |-> 0, den |-> 1]
PyList == [type |-> "list", num |-> 0, den |-> 1]

IsNumber(v) == v.type \in {"int", "float"}

\* Comparisons of the rational x = num/den (den > 0) with an integer k.
NumLt(x, k) == x.num < k * x.den
NumLe(x, k) == x.num <= k * x.den
NumGt(x, k) == x.num > k * x.den
NumGe(x, k) == x.num >= k * x.den

\* Outcomes of a call.
Return(v) == [status |-> "return", exc |-> "", msg |-> "", value |-> v]
Raise(e, m) == [status |-> "raise", exc |-> e, msg |-> m, value |-> PyNone]
NoRet == [status |-> "none", exc |-> "", msg |-> "", value |-> PyNone]

(***************************************************************************)
(* get_freq_alias (read_traj.py).  A frequency string is the text of a     *)
(* number followed by a unit: repr "float" is the text of a Python float   *)
(* (1.0), repr "int" the text of an integer (1), repr "none" no number.    *)
(***************************************************************************)
FreqStr(repr, n, d, unit) ==
    [type |-> "str", repr |-> repr, num |-> n, den |-> d, unit |-> unit]

\* The value of the local freq when the function body ends.
FreqLocal(n) ==
    IF NumGt(n, 1)
    THEN \* seconds = DAYSECONDS/n = (DAYSECONDS * den) / num
         LET snum == DAYSECONDS * n.den
             sden == n.num
         IN  IF snum % (60 * sden) = 0
             THEN \* minutes = seconds/60
                  IF snum % (60 * 60 * sden) = 0
                  THEN FreqStr("float", snum \div (60 * 60 * sden), 1, "H")
                  ELSE FreqStr("float", snum \div (60 * sden), 1, "min")
             ELSE FreqStr("float", snum, sden, "S")
    ELSE FreqStr("none", 0, 1, "D")

\* n > 1 raises TypeError unless n is a number; the body assigns freq and
\* falls off its end, so the call returns None.
get_freq_alias(n) ==
    IF ~IsNumber(n)
    THEN Raise("TypeError", "'>' not supported")
    ELSE LET freq == FreqLocal(n)
         IN  [status |-> "return", exc |-> "", msg |-> "", value |-> PyNone,
              freq |-> freq]

(***************************************************************************)
(* equ_pot (thermo.py).  The value computed is kept symbolic: the checks   *)
(* decide whether it is computed at all.                                   *)
(***************************************************************************)
EquPotValue(t, q, p) == [type |-> "float", fn |-> "ap", t |-> t, q |-> q, p |-> p]

\* equ_pot with q > 1 in place of q >= 1.
equ_pot_humidity_open(t, q, p) ==
    IF NumLe(t, 0)
    THEN Raise("ValueError", "Temperature value out of range")
    ELSE IF NumLt(q, 0) \/ NumGt(q, 1)
    THEN Raise("ValueError", "Specific humidity value out of range")
    ELSE IF NumLe(p, 0)
    THEN Raise("ValueError", "Pressure value out of range")
    ELSE Return(EquPotValue(t, q, p))

equ_pot(t, q, p) ==
    IF NumLe(t, 0)
    THEN Raise("ValueError", "Temperature value out of range")
    ELSE IF NumLt(q, 0) \/ NumGe(q, 1)
    THEN Raise("ValueError", "Specific humidity value out of range")
    ELSE IF NumLe(p, 0)
    THEN Raise("ValueError", "Pressure value out of range")
    ELSE Return(EquPotValue(t, q, p))

(***************************************************************************)
(* Trajectory files.  A file is a sequence of lines; a line is what the    *)
(* code can see of its text: the header marker it contains (kind), the     *)
(* runs of digits in it in order (nums, what re.findall('\d+') returns)    *)
(* and, for a T/F line, the text after the colon (tf).  Kinds that are no  *)
(* marker: "values" (a line of numbers), "blank", "colnames" (the column   *)
(* header of a block), "row" (a data row, nums = <<block, step>>) and      *)
(* "junk" (any other non-blank line).                                      *)
(***************************************************************************)
Line(kind, nums) == [kind |-> kind, nums |-> nums, tf |-> ""]
BoolLine(kind, nums, tf) == [kind |-> kind, nums |-> nums, tf |-> tf]

\* A list of integers, as opposed to the scalar PyInt(n).
PyIntList(items) == [type |-> "list", items |-> items]

\* get_date: the first 10-digit run of the line, None when there is none.
get_date(line) ==
    IF Len(line.nums) > 0 THEN PyInt(line.nums[1]) ELSE PyNone

\* get_numeric: the integers of the line; a list when there are two or
\* more, the bare integer when there is one, IndexError (m[0] of an empty
\* list) when there is none.
get_numeric(line) ==
    LET m == line.nums
    IN  IF Len(m) > 1 THEN Return(PyIntList(m))
        ELSE IF Len(m) = 1 THEN Return(PyInt(m[1]))
        ELSE Raise("IndexError", "list index out of range")

\* get_boolean: true iff the text after the last colon is 't'.
get_boolean(line) == line.tf = "t"

\* metadata[key] = value
DictSet(md, key, value) ==
    [k \in (DOMAIN md) \cup {key} |-> IF k = key THEN value ELSE md[k]]

EmptyDict == [k \in {} |-> PyNone]

(***************************************************************************)
(* process_metadata.  The state of its loop: the dict built so far, count, *)
(* the index i that enumerate hands out, pos the next line the file        *)
(* iterator yields (1-based), and exc once a statement has raised.  The    *)
(* lines that next(f) takes advance pos but not i.                         *)
(***************************************************************************)
PMState(md, count, i, pos) ==
    [metadata |-> md, count |-> count, i |-> i, pos |-> pos,
     exc |-> "", msg |-> "", halted |-> FALSE]

PMRaise(st, e, m) == [st EXCEPT !.exc = e, !.msg = m, !.halted = TRUE]

\* The "cluster pointers" branch reading one line only, as the "attribute
\* types" branch does.
ClusterPointerOneLine(f, st, clusters) ==
    IF "number of clusters" \notin DOMAIN st.metadata
    THEN PMRaise(st, "KeyError", "number of clusters")
    ELSE IF st.pos > Len(f)
    THEN PMRaise(st, "StopIteration", "")
    ELSE IF get_numeric(f[st.pos]).status = "raise"
    THEN PMRaise(st, get_numeric(f[st.pos]).exc, get_numeric(f[st.pos]).msg)
    ELSE [st EXCEPT !.pos = st.pos + 1,
                    !.count = st.count + 1,
                    !.metadata =
                        DictSet(st.metadata, "cluster pointers",
                                IF get_numeric(f[st.pos]).value.type = "list"
                                THEN get_numeric(f[st.pos]).value
                                ELSE PyIntList(<<get_numeric(f[st.pos]).value.num>>))]

\* The "cluster pointers" branch taking an undeclared number of clusters
\* for zero.
RECURSIVE ClusterPointerLoopUndeclared(_, _, _)
ClusterPointerLoopUndeclared(f, st, clusters) ==
    IF "number of clusters" \notin DOMAIN st.metadata
    THEN [st EXCEPT !.metadata =
             DictSet(st.metadata, "cluster pointers", PyIntList(clusters))]
    ELSE IF st.metadata["number of clusters"].type # "int"
    THEN PMRaise(st, "TypeError", "'<' not supported")
    ELSE IF Len(clusters) < st.metadata["number of clusters"].num
    THEN IF st.pos > Len(f)
         THEN PMRaise(st, "StopIteration", "")
         ELSE LET current == get_numeric(f[st.pos])
              IN  IF current.status = "raise"
                  THEN PMRaise(st, current.exc, current.msg)
                  ELSE ClusterPointerLoopUndeclared(
                           f,
                           [st EXCEPT !.pos = st.pos + 1,
                                      !.count = st.count + 1],
                           IF current.value.type = "list"
                           THEN clusters \o current.value.items
                           ELSE clusters \o <<current.value.num>>)
    ELSE [st EXCEPT !.metadata =
              DictSet(st.metadata, "cluster pointers", PyIntList(clusters))]

\* The while loop of the "cluster pointers" branch.
RECURSIVE ClusterPointerLoop(_, _, _)
ClusterPointerLoop(f, st, clusters) ==
    IF "number of clusters" \notin DOMAIN st.metadata
    THEN PMRaise(st, "KeyError", "number of clusters")
    ELSE IF st.metadata["number of clusters"].type # "int"
    THEN PMRaise(st, "TypeError", "'<' not supported")
    ELSE IF Len(clusters) < st.metadata["number of clusters"].num
    THEN IF st.pos > Len(f)
         THEN PMRaise(st, "StopIteration", "")
         ELSE LET current == get_numeric(f[st.pos])
              IN  IF current.status = "raise"
                  THEN PMRaise(st, current.exc, current.msg)
                  ELSE ClusterPointerLoop(
                           f,
                           [st EXCEPT !.pos = st.pos + 1,
                                      !.count = st.count + 1],
                           IF current.value.type = "list"
                           THEN clusters \o current.value.items
                           ELSE clusters \o <<current.value.num>>)
    ELSE [st EXCEPT !.metadata =
              DictSet(st.metadata, "cluster pointers", PyIntList(clusters))]

\* The "attribute types" branch without its count = count + 1.
AttributeTypesLineUncounted(f, s) ==
    IF s.pos > Len(f)
    THEN PMRaise(s, "StopIteration", "")
    ELSE IF get_numeric(f[s.pos]).status = "raise"
    THEN PMRaise(s, get_numeric(f[s.pos]).exc, get_numeric(f[s.pos]).msg)
    ELSE [s EXCEPT !.metadata = DictSet(s.metadata, "attribute types",
                                        get_numeric(f[s.pos]).value),
                   !.pos = s.pos + 1]

\* The "attribute types" branch: the values are on the line next(f) yields.
AttributeTypesLine(f, s) ==
    IF s.pos > Len(f)
    THEN PMRaise(s, "StopIteration", "")
    ELSE IF get_numeric(f[s.pos]).status = "raise"
    THEN PMRaise(s, get_numeric(f[s.pos]).exc, get_numeric(f[s.pos]).msg)
    ELSE [s EXCEPT !.metadata = DictSet(s.metadata, "attribute types",
                                        get_numeric(f[s.pos]).value),
                   !.pos = s.pos + 1,
                   !.count = s.count + 1]

\* The "data interval" branch taking the first two of two or more values.
DataIntervalLineAtLeastTwo(s, vals) ==
    IF vals.status = "raise"
    THEN PMRaise(s, vals.exc, vals.msg)
    ELSE IF vals.value.type # "list"
    THEN PMRaise(s, "TypeError", "object of type 'int' has no len()")
    ELSE IF Len(vals.value.items) >= 2
    THEN [s EXCEPT !.metadata =
             DictSet(DictSet(s.metadata, "data interval hours",
                             PyInt(vals.value.items[1])),
                     "data interval timesteps",
                     PyInt(vals.value.items[2]))]
    ELSE PMRaise(s, "ValueError",
                 "Unexpected number of values in data interval")

\* The "data interval" branch: vals = get_numeric(line) raises on a line of
\* no number, len(vals) raises on the bare integer of a line of one number,
\* and any list of other than two values is refused.
DataIntervalLine(s, vals) ==
    IF vals.status = "raise"
    THEN PMRaise(s, vals.exc, vals.msg)
    ELSE IF vals.value.type # "list"
    THEN PMRaise(s, "TypeError", "object of type 'int' has no len()")
    ELSE IF Len(vals.value.items) = 2
    THEN [s EXCEPT !.metadata =
             DictSet(DictSet(s.metadata, "data interval hours",
                             PyInt(vals.value.items[1])),
                     "data interval timesteps",
                     PyInt(vals.value.items[2]))]
    ELSE PMRaise(s, "ValueError",
                 "Unexpected number of values in data interval")

\* One iteration of the for loop, on the line the iterator yields.
PMLine(f, st) ==
    LET line == f[st.pos]
        s == [st EXCEPT !.pos = st.pos + 1]
        put(key, v) == [s EXCEPT !.metadata = DictSet(st.metadata, key, v)]
        num == get_numeric(line)
        putnum(key) == IF num.status = "raise"
                       THEN PMRaise(s, num.exc, num.msg)
                       ELSE put(key, num.value)
    IN  CASE line.kind = "trajectory number" ->
               [s EXCEPT !.count = st.count + st.i, !.halted = TRUE]
          [] line.kind = "trajectory base time" ->
               put("trajectory base time", get_date(line))
          [] line.kind = "data base time" ->
               put("data base time", get_date(line))
          [] line.kind = "data interval" ->
               DataIntervalLine(s, num)
          [] line.kind = "total number of trajectories" ->
               putnum("total number of trajectories")
          [] line.kind = "number of attributes" ->
               putnum("number of attributes")
          [] line.kind = "attribute types" ->
               AttributeTypesLine(f, s)
          [] line.kind = "number of clusters" ->
               putnum("number of clusters")
          [] line.kind = "cluster pointers" ->
               ClusterPointerLoop(f, s, <<>>)
          [] line.kind = "3d trajectory" ->
               put("3d trajectory", get_boolean(line))
          [] line.kind = "forecast data" ->
               put("forecast data", get_boolean(line))
          [] line.kind = "forward trajectory" ->
               put("forward trajectory", get_boolean(line))
          [] OTHER -> s

\* enumerate: the next index, unless the iteration left the loop.
PMAdvance(st, nxt) == IF nxt.halted THEN nxt ELSE [nxt EXCEPT !.i = st.i + 1]

RECURSIVE PMLoop(_, _)
PMLoop(f, st) ==
    IF st.halted \/ st.pos > Len(f)
    THEN st
    ELSE PMLoop(f, PMAdvance(st, PMLine(f, st)))

\* process_metadata(file): (metadata, count), or the exception a line raised.
PMResult(st) ==
    IF st.exc # ""
    THEN Raise(st.exc, st.msg)
    ELSE Return([metadata |-> st.metadata, count |-> st.count])

process_metadata(f) == PMResult(PMLoop(f, PMState(EmptyDict, 0, 0, 1)))

(***************************************************************************)
(* read_traj.  pandas is modelled by what the calls of read_traj observe:  *)
(* read_csv drops the first skiprows lines and the blank lines, takes the  *)
(* next line as the header (EmptyDataError when there is none) and yields  *)
(* the rest as rows; get_chunk(n) returns the next n rows, fewer when      *)
(* fewer are left, and raises StopIteration when none is left.  Every      *)
(* non-blank line is taken to hold no more fields than there are columns.  *)
(***************************************************************************)
ATTR ==
    [x \in {1, 3, 4, 10, 159} |->
        CASE x = 1 -> "temperature (K)"
          [] x = 3 -> "potential vorticity (PVU)"
          [] x = 4 -> "specific humidity (kg/kg)"
          [] x = 10 -> "height (m)"
          [] x = 159 -> "boundary layer height (m)"]

SEPLINES == 2

Min(a, b) == IF a <= b THEN a ELSE b

NotBlank(l) == l.kind # "blank"

\* The lines the reader parses: the header line first, then the rows.
ReaderLines(f, skip_rows) ==
    SelectSeq(SubSeq(f, skip_rows + 1, Len(f)), NotBlank)

\* reader.get_chunk(n) with the reader at row pos (1-based) of rows.
get_chunk(rows, pos, n) ==
    IF pos > Len(rows)
    THEN Raise("StopIteration", "")
    ELSE Return(SubSeq(rows, pos, Min(pos + n - 1, Len(rows))))

NoneChunk == [isNone |-> TRUE, rows |-> <<>>]
Chunk(rows) == [isNone |-> FALSE, rows |-> rows]

\* The loop with traj_list[i] = chunk moved after reader.get_chunk(2).
RECURSIVE DecodeLoopStoreAfterSkip(_, _, _)
DecodeLoopStoreAfterSkip(rows, ntraj, st) ==
    IF ~(st.i < ntraj)
    THEN [st EXCEPT !.loop = "complete"]
    ELSE IF get_chunk(rows, st.pos, nts + 1).status = "raise"
    THEN [st EXCEPT !.loop = "break"]
    ELSE IF get_chunk(rows, st.pos + Len(get_chunk(rows, st.pos, nts + 1).value),
                      SEPLINES).status = "raise"
    THEN [st EXCEPT !.loop = "break"]
    ELSE DecodeLoopStoreAfterSkip(
             rows, ntraj,
             [st EXCEPT
                !.traj_list[st.i + 1] =
                    Chunk(get_chunk(rows, st.pos, nts + 1).value),
                !.pos = st.pos + Len(get_chunk(rows, st.pos, nts + 1).value)
                        + Len(get_chunk(rows,
                                        st.pos + Len(get_chunk(rows, st.pos,
                                                               nts + 1).value),
                                        SEPLINES).value),
                !.i = st.i + 1])

\* The while loop of read_traj: st.traj_list, st.i, the reader's position
\* st.pos, and st.loop = "break" once StopIteration has ended the loop.
RECURSIVE DecodeLoop(_, _, _)
DecodeLoop(rows, ntraj, st) ==
    IF ~(st.i < ntraj)
    THEN [st EXCEPT !.loop = "complete"]
    ELSE LET chunk == get_chunk(rows, st.pos, nts + 1)
         IN  IF chunk.status = "raise"
             THEN [st EXCEPT !.loop = "break"]
             ELSE LET stored == [st EXCEPT
                                   !.traj_list[st.i + 1] = Chunk(chunk.value),
                                   !.pos = st.pos + Len(chunk.value)]
                      skip == get_chunk(rows, stored.pos, SEPLINES)
                  IN  IF skip.status = "raise"
                      THEN [stored EXCEPT !.loop = "break"]
                      ELSE DecodeLoop(rows, ntraj,
                                      [stored EXCEPT
                                          !.pos = stored.pos + Len(skip.value),
                                          !.i = st.i + 1])

\* np.array(a).repeat(m): every element m times, in order.
Repeat(a, m) == [k \in 1..(Len(a) * m) |-> a[((k - 1) \div m) + 1]]

\* The step of a frequency in seconds.  date_range with start and periods
\* and freq=None takes the daily frequency.
FreqSeconds(freq) ==
    IF freq.type = "NoneType" THEN DAYSECONDS
    ELSE CASE freq.unit = "H" -> (freq.num * 3600) \div freq.den
           [] freq.unit = "min" -> (freq.num * 60) \div freq.den
           [] freq.unit = "S" -> freq.num \div freq.den
           [] OTHER -> DAYSECONDS

\* pd.date_range(start, periods=periods, freq=freq), in seconds.
date_range(start_day, periods, freq) ==
    [j \in 1..periods |-> start_day * DAYSECONDS + (j - 1) * FreqSeconds(freq)]

\* np.full(n, fill) with a 1-d fill: fill broadcast to shape (n,).
np_full(n, fill) ==
    IF Len(fill) = n THEN Return(fill)
    ELSE IF Len(fill) = 1 THEN Return([k \in 1..n |-> fill[1]])
    ELSE Raise("ValueError", "could not broadcast input array")

\* pd.concat(objs, keys=keys): pairs keys with objs and drops the None
\* objects.  When the two lengths differ pandas up to 2.x pairs up to the
\* shorter (with a warning) and pandas 3 raises: strict tells which.
RECURSIVE ConcatPairs(_, _, _)
ConcatPairs(objs, keys, k) ==
    IF k > Min(Len(objs), Len(keys)) THEN <<>>
    ELSE (IF objs[k].isNone THEN <<>>
          ELSE <<[CLUSTER |-> keys[k][1], READ |-> keys[k][2],
                  position |-> k - 1, rows |-> objs[k].rows]>>)
         \o ConcatPairs(objs, keys, k + 1)

pd_concat(objs, keys, strict) ==
    IF Len(objs) = 0
    THEN Raise("ValueError", "No objects to concatenate")
    ELSE IF strict /\ Len(keys) # Len(objs)
    THEN Raise("ValueError", "keys and objs differ in length")
    ELSE LET df == ConcatPairs(objs, keys, 1)
         IN  IF Len(df) = 0
             THEN Raise("ValueError", "All objects passed were None")
             ELSE Return(df)

\* The locals of read_traj an outcome is reported with.
RTLocals(skip_rows, traj_list, loop) ==
    [skip_rows |-> skip_rows, traj_list |-> traj_list, loop |-> loop]

RTRaise(e, m, locals) ==
    [status |-> "raise", exc |-> e, msg |-> m, value |-> PyNone,
     locals |-> locals]

RTNotReached == RTLocals(0, <<>>, "not reached")

\* Line 251: the table of the trajectories read, under their keys.
Combine(metadata, traj_list, keys, strict, locals, df) ==
    IF df.status = "raise"
    THEN RTRaise(df.exc, df.msg, locals)
    ELSE [status |-> "return", exc |-> "", msg |-> "",
          value |-> [df |-> df.value, metadata |-> metadata],
          locals |-> locals]

\* Lines 248-250: the release time of every position, and the keys.
WithDateIndex(metadata, traj_list, strict, locals, cluster_index, date_index) ==
    IF date_index.status = "raise"
    THEN RTRaise(date_index.exc, date_index.msg, locals)
    ELSE Combine(metadata, traj_list,
                 [k \in 1..Len(cluster_index) |->
                     <<cluster_index[k], date_index.value[k]>>],
                 strict, locals,
                 pd_concat(traj_list,
                           [k \in 1..Len(cluster_index) |->
                               <<cluster_index[k], date_index.value[k]>>],
                           strict))

\* The index with every pointer repeated once per trajectory of the file
\* instead of once per trajectory of a cluster.
BuildIndexRepeatTotal(metadata, traj_dt, ntraj_pc, freq, traj_list, strict, locals) ==
    WithDateIndex(metadata, traj_list, strict, locals,
                  Repeat(metadata["cluster pointers"].items, Len(traj_list)),
                  np_full(Len(metadata["cluster pointers"].items) * Len(traj_list),
                          date_range(traj_dt, ntraj_pc, freq)))

\* Lines 245-253: the keys and the combined table.
BuildIndex(metadata, traj_dt, ntraj_pc, freq, traj_list, strict, locals) ==
    WithDateIndex(metadata, traj_list, strict, locals,
                  Repeat(metadata["cluster pointers"].items, ntraj_pc),
                  np_full(Len(metadata["cluster pointers"].items) * ntraj_pc,
                          date_range(traj_dt, ntraj_pc, freq)))

\* Lines 235-253, with the rows the reader yields.
DecodeRows(metadata, traj_dt, ntraj_pc, freq, strict, skip_rows, lp) ==
    BuildIndex(metadata, traj_dt, ntraj_pc, freq, lp.traj_list, strict,
               RTLocals(skip_rows, lp.traj_list, lp.loop))

\* Lines 226-243: the reader and the decode loop, then the index.
Decode(f, metadata, end, traj_dt, ntraj, ntraj_pc, freq, strict) ==
    IF Len(ReaderLines(f, end + 1)) = 0
    THEN RTRaise("EmptyDataError", "No columns to parse from file",
                 RTLocals(end + 1, [k \in 1..ntraj |-> NoneChunk],
                          "not reached"))
    ELSE DecodeRows(metadata, traj_dt, ntraj_pc, freq, strict, end + 1,
                    DecodeLoop(Tail(ReaderLines(f, end + 1)), ntraj,
                               [traj_list |-> [k \in 1..ntraj |-> NoneChunk],
                                i |-> 0, pos |-> 1, loop |-> "running"]))

\* The keys read_traj reads after the base time, in the order it reads them.
RequiredKeys ==
    <<"total number of trajectories", "number of clusters", "cluster pointers">>

\* The first key of keys that md lacks, "" when it has them all.
RECURSIVE MissingKey(_, _)
MissingKey(md, keys) ==
    IF keys = <<>> THEN ""
    ELSE IF Head(keys) \notin DOMAIN md THEN Head(keys)
    ELSE MissingKey(md, Tail(keys))

\* The first code of types that ATTR lacks, 0 when it has them all.
RECURSIVE UnknownCode(_)
UnknownCode(types) ==
    IF types = <<>> THEN 0
    ELSE IF Head(types) \notin DOMAIN ATTR THEN Head(types)
    ELSE UnknownCode(Tail(types))

\* Lines 204-253, once the base time is read.
RTCounts(f, strict, md, end, traj_dt, ntraj, nclust) ==
    IF ntraj.type # "int" \/ nclust.type # "int"
    THEN RTRaise("TypeError", "unsupported operand type(s) for //",
                 RTNotReached)
    ELSE IF nclust.num = 0
    THEN RTRaise("ZeroDivisionError", "integer division by zero",
                 RTNotReached)
    ELSE IF "attribute types" \notin DOMAIN md
    THEN RTRaise("KeyError", "attribute types", RTNotReached)
    ELSE IF md["attribute types"].type # "list"
    THEN RTRaise("TypeError", "'int' object is not iterable", RTNotReached)
    ELSE IF UnknownCode(md["attribute types"].items) # 0
    THEN RTRaise("KeyError", "attribute code", RTNotReached)
    ELSE Decode(f,
                DictSet(md, "attribute names",
                        [k \in 1..Len(md["attribute types"].items) |->
                            ATTR[md["attribute types"].items[k]]]),
                end, traj_dt, ntraj.num, ntraj.num \div nclust.num,
                get_freq_alias(PyInt(ntraj.num \div nclust.num)).value,
                strict)

\* Lines 203-253, with what process_metadata returned.
RTBody(f, strict, md, end) ==
    IF "trajectory base time" \notin DOMAIN md
    THEN RTRaise("KeyError", "trajectory base time", RTNotReached)
    ELSE IF md["trajectory base time"].type = "NoneType"
    THEN RTRaise("TypeError", "strptime() argument 1 must be str",
                 RTNotReached)
    ELSE IF MissingKey(md, RequiredKeys) # ""
    THEN RTRaise("KeyError", MissingKey(md, RequiredKeys), RTNotReached)
    ELSE RTCounts(f, strict, md, end, md["trajectory base time"].num,
                  md["total number of trajectories"], md["number of clusters"])

RTWithMetadata(f, strict, pm) ==
    IF pm.status = "raise"
    THEN RTRaise(pm.exc, pm.msg, RTNotReached)
    ELSE RTBody(f, strict, pm.value.metadata, pm.value.count)

read_traj(f, strict) == RTWithMetadata(f, strict, process_metadata(f))

(***************************************************************************)
(* The files of the model.  A header is described by its fields and by the *)
(* lines its cluster pointers are laid out on; the data part by the number *)
(* of blocks, the rows of the last block (the others hold nts + 1) and the *)
(* non-blank lines that trail the last block.                              *)
(***************************************************************************)
RECURSIVE ValueLines(_)
ValueLines(layout) ==
    IF layout = <<>> THEN <<>>
    ELSE <<Line("values", Head(layout))>> \o ValueLines(Tail(layout))

Header(base, ntraj, attrs, nclust, layout, blanks) ==
    <<Line("trajectory base time", <<base>>),
      Line("data base time", <<base>>),
      Line("data interval", <<3, 6>>),
      Line("total number of trajectories", <<ntraj>>),
      Line("number of attributes", <<Len(attrs)>>),
      Line("attribute types", <<>>),
      Line("values", attrs),
      Line("number of clusters", <<nclust>>),
      Line("cluster pointers", <<>>)>>
    \o ValueLines(layout)
    \o <<BoolLine("3d trajectory", <<3>>, "t"),
         BoolLine("forecast data", <<>>, "f"),
         BoolLine("forward trajectory", <<>>, "f")>>
    \o [k \in 1..blanks |-> Line("blank", <<>>)]

Block(b, nrows) ==
    <<Line("trajectory number", <<b, nts>>), Line("colnames", <<>>)>>
    \o [s \in 1..nrows |-> Line("row", <<b, s - 1>>)]

RECURSIVE Blocks(_, _, _)
Blocks(b, nblocks, lastRows) ==
    IF b > nblocks THEN <<>>
    ELSE Block(b, IF b = nblocks THEN lastRows ELSE nts + 1)
         \o Blocks(b + 1, nblocks, lastRows)

\* A file of no block still holds the heading of its first block.
Data(nblocks, lastRows, trail) ==
    IF nblocks = 0
    THEN Block(1, 0)
    ELSE Blocks(1, nblocks, lastRows) \o [k \in 1..trail |-> Line("junk", <<>>)]

\* The ways of laying n pointer values out on lines: the sequences of
\* line lengths that sum to n.
RECURSIVE Compositions(_)
Compositions(n) ==
    IF n = 0 THEN {<<>>}
    ELSE UNION {{<<first>> \o rest : rest \in Compositions(n - first)} :
                first \in 1..n}

RECURSIVE Split(_, _)
Split(values, lengths) ==
    IF lengths = <<>> THEN <<>>
    ELSE <<SubSeq(values, 1, Head(lengths))>>
         \o Split(SubSeq(values, Head(lengths) + 1, Len(values)), Tail(lengths))

\* The attribute type lines of the model's headers: one code, several
\* codes, a code ATTR does not hold.
AttrLists == {<<1>>, <<159>>, <<1, 4>>, <<10, 3, 1>>, <<1, 2>>}

\* The rows the last block of a file may hold.
LastRowsChoices == {1, nts, nts + 1}

\* The descriptions of the headers and of the data parts the calls draw from.
HeaderDescs ==
    {[base |-> 0, ntraj |-> t, attrs |-> a, nclust |-> n,
      ptrs |-> p, lengths |-> l, blanks |-> b] :
        t \in 1..MaxTraj, a \in AttrLists, n \in 1..MaxClust,
        p \in UNION {[1..m -> 1..MaxClust] : m \in 1..MaxClust},
        l \in UNION {Compositions(m) : m \in 1..MaxClust},
        b \in 0..1}

WellFormed(h) ==
    /\ Len(h.ptrs) = h.nclust
    /\ \E m \in 1..MaxClust : h.nclust = m /\ h.lengths \in Compositions(m)

HeaderOf(h) ==
    Header(h.base, h.ntraj, h.attrs, h.nclust, Split(h.ptrs, h.lengths),
           h.blanks)

FileOf(h, d) == HeaderOf(h) \o Data(d.nblocks, d.lastRows, d.trail)

DataDescs ==
    {[nblocks |-> 0, lastRows |-> 0, trail |-> 0]}
    \cup {[nblocks |-> b, lastRows |-> r, trail |-> t] :
            b \in 1..MaxBlocks, r \in LastRowsChoices, t \in 0..SEPLINES}

MinimalData == [nblocks |-> 1, lastRows |-> 1, trail |-> 0]

\* Headers of the files whose data part varies: every attribute known,
\* the pointers 1..n in order or all 1.
PlainHeaders ==
    {[base |-> 0, ntraj |-> t, attrs |-> <<1, 4>>, nclust |-> n,
      ptrs |-> [k \in 1..n |-> IF same THEN 1 ELSE k],
      lengths |-> <<n>>, blanks |-> 1] :
        t \in 1..MaxTraj, n \in 1..MaxClust, same \in BOOLEAN}

(***************************************************************************)
(* Headers that depart from the documented layout: a "data interval" line  *)
(* of another number of values, and a "number of clusters" line that comes *)
(* after the cluster pointers or not at all.                               *)
(***************************************************************************)
\* The file with the numbers of its lines of a kind replaced.
WithNums(f, kind, nums) ==
    [k \in 1..Len(f) |-> IF f[k].kind = kind THEN Line(kind, nums) ELSE f[k]]

\* The numbers a "data interval" line may hold.
IntervalTokens == {<<>>, <<3>>, <<3, 6>>, <<3, 6, 9>>, <<3, 6, 9, 12>>}

\* The file without its lines of a kind.
Without(f, kind) ==
    LET Keep(l) == l.kind # kind
    IN  SelectSeq(f, Keep)

\* The file with a line put in front of its first line of kind before.
InsertBefore(f, before, line) ==
    LET at == CHOOSE i \in 1..Len(f) :
                  /\ f[i].kind = before
                  /\ \A j \in 1..(i - 1) : f[j].kind # before
    IN  SubSeq(f, 1, at - 1) \o <<line>> \o SubSeq(f, at, Len(f))

ClusterOrders == {"declared first", "declared late", "not declared"}

\* The header with its "number of clusters" line where order tells.
Reorder(f, nclust, order) ==
    IF order = "declared first" THEN f
    ELSE IF order = "not declared" THEN Without(f, "number of clusters")
    ELSE InsertBefore(Without(f, "number of clusters"), "3d trajectory",
                      Line("number of clusters", <<nclust>>))

VariantFile(h, tokens, order) ==
    Reorder(WithNums(FileOf(h, MinimalData), "data interval", tokens),
            h.nclust, order)

(***************************************************************************)
(* The file system.  The process starts in the directory "home"; "data" is *)
(* a directory of home and "missing" is no directory.  A directory holds,  *)
(* for every day, no file, one file, two files or one file whose header    *)
(* declares a single attribute, all named rtraj<idx>_YYYYMMDD00, and one   *)
(* file of another name.  Dates are day numbers.                           *)
(***************************************************************************)
Days == 0..MaxDays

DayKinds == {"none", "one", "two", "single"}

FileName(prefix, day, idx, kind) ==
    [prefix |-> prefix, day |-> day, idx |-> idx, kind |-> kind]

Listing(dir) ==
    {FileName("notes", 0, 1, "one")}
    \cup {FileName("rtraj", d, 1, dir[d]) : d \in {e \in Days : dir[e] # "none"}}
    \cup {FileName("rtraj", d, 2, "two") : d \in {e \in Days : dir[e] = "two"}}

\* The text of a file of the directory: one trajectory, one cluster, a
\* block of two rows, its base time the day of its name.
Contents(name) ==
    Header(name.day, 1, IF name.kind = "single" THEN <<1>> ELSE <<1, 4>>,
           1, <<<<1>>>>, 1)
    \o Data(1, 2, 0)

isdir(path) == path = "data"

\* open(os.path.join(input_dir, file)) from the working directory wd: the
\* relative path is found from home only.
OpenFile(input_dir, name, wd) ==
    IF wd = "home" /\ isdir(input_dir)
    THEN Return(Contents(name))
    ELSE Raise("FileNotFoundError", "No such file or directory")

\* daterange without the + 1 that makes the end day inclusive.
daterangeExclusive(start_date, end_date) ==
    LET last == IF end_date.type = "NoneType" THEN start_date ELSE end_date
        n == last.num - start_date.num
    IN  [k \in 1..n |-> start_date.num + (k - 1)]

\* daterange: the days start, start + 1, ..., end; the start day alone when
\* end is None.
daterange(start_date, end_date) ==
    LET last == IF end_date.type = "NoneType" THEN start_date ELSE end_date
        n == (last.num - start_date.num) + 1
    IN  [k \in 1..n |-> start_date.num + (k - 1)]

\* glob.glob("rtraj*YYYYMMDD00") in the directory: the matching names, in
\* the order the directory lists them (reversed tells that order).
glob(dir, day, reversed) ==
    LET first == {x \in Listing(dir) : x.prefix = "rtraj" /\ x.day = day /\ x.idx = 1}
        second == {x \in Listing(dir) : x.prefix = "rtraj" /\ x.day = day /\ x.idx = 2}
        seqOf(S) == IF S = {} THEN <<>> ELSE <<CHOOSE x \in S : TRUE>>
    IN  IF reversed THEN seqOf(second) \o seqOf(first)
        ELSE seqOf(first) \o seqOf(second)

RECURSIVE GlobAll(_, _, _)
GlobAll(dir, days, R) ==
    IF days = <<>> THEN <<>>
    ELSE glob(dir, Head(days), Head(days) \in R) \o GlobAll(dir, Tail(days), R)

\* One element of the list, then the rest of it.
ReadCons(one, rest) ==
    IF one.status = "raise" THEN Raise(one.exc, one.msg)
    ELSE IF rest.status = "raise" THEN rest
    ELSE Return(<<one.value>> \o rest.value)

ReadOpened(f, strict) ==
    IF f.status = "raise"
    THEN RTRaise(f.exc, f.msg, RTNotReached)
    ELSE read_traj(f.value, strict)

\* [read_traj(os.path.join(input_dir, file)) for file in files]
RECURSIVE ReadFiles(_, _, _, _)
ReadFiles(input_dir, files, wd, strict) ==
    IF files = <<>> THEN Return(<<>>)
    ELSE ReadCons(ReadOpened(OpenFile(input_dir, Head(files), wd), strict),
                  ReadFiles(input_dir, Tail(files), wd, strict))

(***************************************************************************)
(* read_data, statement by statement.                                      *)
(***************************************************************************)
NoFrame == [input_dir |-> "", start_date |-> PyNone, end_date |-> PyNone,
            start_dir |-> "", files |-> <<>>]

RDFrame(input_dir, start_date, end_date) ==
    [input_dir |-> input_dir, start_date |-> start_date, end_date |-> end_date,
     start_dir |-> "", files |-> <<>>]

NoPlot == [result |-> NoRet, attr_names |-> <<>>, nattr |-> 0, plotted |-> FALSE]

\* read_data hands its outcome to its caller.
RDReturn(result) ==
    IF call.op = "read_data"
    THEN pc' = "done" /\ ret' = result /\ UNCHANGED pl
    ELSE /\ pc' = IF call.op = "plot_hm" THEN "hm_unpack"
                  ELSE IF call.op = "plot_traj" THEN "traj_unpack"
                  ELSE "ts_attr"
         /\ pl' = [pl EXCEPT !.result = result]
         /\ UNCHANGED ret

\* Lines 258-267: the directory check, the dates, chdir(input_dir).
read_data_enter ==
    /\ pc = "rd_enter"
    /\ IF ~isdir(rd.input_dir)
       THEN RDReturn(Raise("ValueError", "Not a directory")) /\ UNCHANGED <<cwd, rd>>
       ELSE IF rd.start_date.type = "NoneType"
       THEN /\ RDReturn(Raise("TypeError", "fromisoformat: argument must be str"))
            /\ UNCHANGED <<cwd, rd>>
       ELSE /\ rd' = [rd EXCEPT !.start_dir = cwd]
            /\ cwd' = rd.input_dir
            /\ pc' = "rd_glob"
            /\ UNCHANGED <<ret, pl>>
    /\ UNCHANGED call

\* A date with a UTC offset, which fromisoformat reads from a string such
\* as YYYY-MM-DDT00:00:00+00:00; the dates PyInt(d) carry no offset.
PyAware(d) == [type |-> "aware", num |-> d, den |-> 1]

\* end_date - start_date of daterange: datetime refuses to subtract a date
\* with an offset from one without, and the other way round.
Subtractable(start_date, end_date) ==
    end_date.type = "NoneType" \/ end_date.type = start_date.type

\* Lines 269-271: the files of every day of the range.  The list
\* comprehension runs daterange, whose subtraction may raise; nothing
\* catches the exception, so it leaves read_data from here.
read_data_glob ==
    /\ pc = "rd_glob"
    /\ IF ~Subtractable(rd.start_date, rd.end_date)
       THEN /\ RDReturn(Raise("TypeError",
                    "can't subtract offset-naive and offset-aware datetimes"))
            /\ UNCHANGED <<cwd, rd>>
       ELSE /\ \E R \in SUBSET {d \in Days : call.dir[d] = "two"} :
                  rd' = [rd EXCEPT !.files =
                            GlobAll(call.dir,
                                    daterange(rd.start_date, rd.end_date), R)]
            /\ pc' = "rd_chdir"
            /\ UNCHANGED <<ret, cwd, pl>>
    /\ UNCHANGED call

\* Line 273: chdir(start_dir).
read_data_chdir ==
    /\ pc = "rd_chdir"
    /\ cwd' = rd.start_dir
    /\ pc' = "rd_read"
    /\ UNCHANGED <<call, ret, rd, pl>>

\* Lines 275-277: every file read, the list returned.
read_data_read ==
    /\ pc = "rd_read"
    /\ RDReturn(ReadFiles(rd.input_dir, rd.files, cwd, call.strict))
    /\ UNCHANGED <<call, cwd, rd>>

(***************************************************************************)
(* The attribute lookup of the plotting entry points.  What follows the    *)
(* lookup (the figure, the file saved) is the flag plotted.                *)
(***************************************************************************)
AttrNone == [type |-> "NoneType", text |-> ""]
AttrArg(text) == [type |-> "str", text |-> text]

\* a in s, for strings.
IsSubstring(a, s) ==
    \E i \in 1..(Len(s) - Len(a) + 1) : SubSeq(s, i, i + Len(a) - 1) = a

\* [i for i, s in enumerate(attr_names) if attr in s], as the names kept.
Matching(attr_names, attr) ==
    LET Keep(name) == IsSubstring(attr, name)
    IN  SelectSeq(attr_names, Keep)

\* An element of a (table, metadata) pair.
TupleGet(pair, k) ==
    IF k = 0 THEN [type |-> "DataFrame", v |-> pair.df]
    ELSE [type |-> "dict", v |-> pair.metadata]

Plotted(names) ==
    [result |-> NoRet, attr_names |-> names, nattr |-> Len(names),
     plotted |-> TRUE]

\* data, metadata = <list>: the two elements of a list of two, ValueError
\* for a list of any other length.
Unpack(lst) ==
    IF Len(lst) > 2
    THEN Raise("ValueError", "too many values to unpack")
    ELSE IF Len(lst) < 2
    THEN Raise("ValueError", "not enough values to unpack")
    ELSE Return([data |-> lst[1], metadata |-> lst[2]])

\* plot_hm line 92: the call of read_data.
plot_hm_enter ==
    /\ pc = "hm_enter"
    /\ rd' = RDFrame(call.path, call.start, call.end)
    /\ pc' = "rd_enter"
    /\ UNCHANGED <<call, ret, cwd, pl>>

\* plot_hm lines 92-145, from the unpacking of what read_data returned:
\* data, metadata = <list> needs a list of two, and then metadata is the
\* second (table, metadata) pair, metadata[0] its table.
HmBody(result, attr) ==
    IF result.status = "raise" THEN [ret |-> result, pl |-> NoPlot]
    ELSE IF Unpack(result.value).status = "raise"
    THEN [ret |-> Unpack(result.value), pl |-> NoPlot]
    ELSE LET metadata == Unpack(result.value).value.metadata
             md0 == TupleGet(metadata, 0)
         IN  IF md0.type # "dict"
             THEN [ret |-> Raise("KeyError", "number of attributes"), pl |-> NoPlot]
             ELSE LET attr_names == md0.v["attribute names"]
                  IN  IF attr.type = "NoneType"
                      THEN [ret |-> Return(PyNone), pl |-> Plotted(attr_names)]
                      ELSE IF Len(Matching(attr_names, attr.text)) > 0
                      THEN [ret |-> Return(PyNone),
                            pl |-> Plotted(Matching(attr_names, attr.text))]
                      ELSE [ret |-> Raise("ValueError", attr.text), pl |-> NoPlot]

HmDone(out) ==
    /\ ret' = out.ret
    /\ pl' = [out.pl EXCEPT !.result = pl.result]

plot_hm_body ==
    /\ pc = "hm_unpack"
    /\ HmDone(HmBody(pl.result, call.attr))
    /\ pc' = "done"
    /\ UNCHANGED <<call, cwd, rd>>

\* plot_traj line 87: the call of read_data.
plot_traj_enter ==
    /\ pc = "traj_enter"
    /\ rd' = RDFrame(call.path, call.start, call.end)
    /\ pc' = "rd_enter"
    /\ UNCHANGED <<call, ret, cwd, pl>>

\* plot_traj lines 87-164, from the unpacking of what read_data returned:
\* data is the first (table, metadata) pair, so the loop starts on its
\* table, and metadata[0] is the table of the second pair.
TrajBody(result) ==
    IF result.status = "raise" THEN [ret |-> result, pl |-> NoPlot]
    ELSE IF Unpack(result.value).status = "raise"
    THEN [ret |-> Unpack(result.value), pl |-> NoPlot]
    ELSE IF TupleGet(Unpack(result.value).value.metadata, 0).type # "dict"
    THEN [ret |-> Raise("KeyError", "trajectory base time"), pl |-> NoPlot]
    ELSE IF NumGt(TupleGet(Unpack(result.value).value.metadata, 0).v["number of clusters"], 1)
    THEN [ret |-> Raise("NotImplementedError",
                        "Plotting multiple clusters not yet implemented"),
          pl |-> NoPlot]
    ELSE [ret |-> Return(PyNone), pl |-> Plotted(<<>>)]

plot_traj_body ==
    /\ pc = "traj_unpack"
    /\ HmDone(TrajBody(pl.result))
    /\ pc' = "done"
    /\ UNCHANGED <<call, cwd, rd>>

\* main of plot_ts lines 95-100: read_data for a date range, read_traj of
\* the path otherwise (parse_args has checked that the path exists).
plot_ts_enter ==
    /\ pc = "ts_enter"
    /\ IF call.start.type # "NoneType"
       THEN /\ rd' = RDFrame(call.path, call.start, call.end)
            /\ pc' = "rd_enter"
            /\ UNCHANGED pl
       ELSE /\ pl' = [pl EXCEPT !.result =
                        ReadCons(read_traj(Contents(call.file), call.strict),
                                 Return(<<>>))]
            /\ pc' = "ts_attr"
            /\ UNCHANGED rd
    /\ UNCHANGED <<call, ret, cwd>>

\* main of plot_ts lines 102-109: the attribute names to plot.  No branch
\* handles an attribute that matches no name.
TsAttrNames(attr_names, attr) ==
    IF attr.type = "NoneType" THEN attr_names
    ELSE IF Len(Matching(attr_names, attr.text)) > 0
    THEN Matching(attr_names, attr.text)
    ELSE attr_names

plot_ts_attr ==
    /\ pc = "ts_attr"
    /\ IF pl.result.status = "raise"
       THEN ret' = pl.result /\ pc' = "done" /\ UNCHANGED pl
       ELSE IF Len(pl.result.value) = 0
       THEN /\ ret' = Raise("IndexError", "list index out of range")
            /\ pc' = "done"
            /\ UNCHANGED pl
       ELSE /\ LET names == TsAttrNames(
                               TupleGet(pl.result.value[1], 1).v["attribute names"],
                               call.attr)
               IN  pl' = [pl EXCEPT !.attr_names = names, !.nattr = Len(names)]
            /\ pc' = "ts_plot"
            /\ UNCHANGED ret
    /\ UNCHANGED <<call, cwd, rd>>

\* main of plot_ts lines 111-146: the figure.
plot_ts_plot ==
    /\ pc = "ts_plot"
    /\ pl' = [pl EXCEPT !.plotted = TRUE]
    /\ ret' = Return(PyNone)
    /\ pc' = "done"
    /\ UNCHANGED <<call, cwd, rd>>

(***************************************************************************)
(* The calls of the functions that touch no process state.                 *)
(***************************************************************************)
call_get_freq_alias ==
    /\ pc = "get_freq_alias"
    /\ ret' = get_freq_alias(call.n)
    /\ pc' = "done"
    /\ UNCHANGED <<call, cwd, rd, pl>>

call_equ_pot ==
    /\ pc = "equ_pot"
    /\ ret' = equ_pot(call.t, call.q, call.p)
    /\ pc' = "done"
    /\ UNCHANGED <<call, cwd, rd, pl>>

call_process_metadata ==
    /\ pc = "process_metadata"
    /\ ret' = process_metadata(call.file)
    /\ pc' = "done"
    /\ UNCHANGED <<call, cwd, rd, pl>>

call_read_traj ==
    /\ pc = "read_traj"
    /\ ret' = read_traj(call.file, call.strict)
    /\ pc' = "done"
    /\ UNCHANGED <<call, cwd, rd, pl>>

(***************************************************************************)
(* The calls a behaviour starts with.                                      *)
(***************************************************************************)
\* Sample counts per day: the cases of the tests, counts that give whole
\* hours, whole minutes, whole seconds and a fraction of a second.
FreqInputs == {0, 1, 2, 7, 24, 96, 1440, 86400}

FreqArgs ==
    {PyNone, PyStr, PyList, PyFloat(3141, 1000), PyFloat(1, 2)}
    \cup {PyInt(k) : k \in FreqInputs \cup (1..MaxTraj)}

TempArgs == {PyInt(-1), PyInt(0), PyFloat(1, 2), PyInt(273)}
HumArgs == {PyInt(-1), PyFloat(-1, 1000), PyInt(0), PyFloat(18, 1000),
            PyFloat(999, 1000), PyInt(1), PyInt(2)}
PresArgs == {PyInt(-1), PyInt(0), PyFloat(1, 2), PyInt(1000)}

DateArgs == {PyNone} \cup {PyInt(d) : d \in Days}

\* Dates of the first two days, without and with a UTC offset.
OffsetDateArgs == {PyInt(0), PyInt(1), PyAware(0), PyAware(1)}

AttrArgs == {AttrNone, AttrArg("temp"), AttrArg("humidity"), AttrArg("pressure")}

Start(c, p) ==
    /\ call = c
    /\ pc = p
    /\ ret = NoRet
    /\ cwd = "home"
    /\ pl = NoPlot

Init ==
    \/ \E n \in FreqArgs :
          Start([op |-> "get_freq_alias", n |-> n], "get_freq_alias") /\ rd = NoFrame
    \/ \E t \in TempArgs, q \in HumArgs, p \in PresArgs :
          Start([op |-> "equ_pot", t |-> t, q |-> q, p |-> p], "equ_pot") /\ rd = NoFrame
    \/ \E h \in {x \in HeaderDescs : WellFormed(x)} :
          /\ Start([op |-> "process_metadata", h |-> h, d |-> MinimalData,
                    file |-> FileOf(h, MinimalData)], "process_metadata")
          /\ rd = NoFrame
    \/ \E h \in {x \in HeaderDescs : WellFormed(x)}, strict \in BOOLEAN :
          /\ Start([op |-> "read_traj", h |-> h, d |-> MinimalData,
                    file |-> FileOf(h, MinimalData), strict |-> strict], "read_traj")
          /\ rd = NoFrame
    \/ \E h \in PlainHeaders, tokens \in IntervalTokens, order \in ClusterOrders :
          /\ Start([op |-> "process_metadata", h |-> h, d |-> MinimalData,
                    file |-> VariantFile(h, tokens, order)], "process_metadata")
          /\ rd = NoFrame
    \/ \E h \in PlainHeaders, d \in DataDescs, strict \in BOOLEAN :
          /\ Start([op |-> "read_traj", h |-> h, d |-> d,
                    file |-> FileOf(h, d), strict |-> strict], "read_traj")
          /\ rd = NoFrame
    \/ \E dir \in [Days -> DayKinds], s \in DateArgs, e \in DateArgs :
          /\ Start([op |-> "read_data", dir |-> dir, strict |-> FALSE], "rd_enter")
          /\ rd = RDFrame("data", s, e)
    \/ \E dir \in [Days -> {"none", "one"}], s \in OffsetDateArgs,
          e \in OffsetDateArgs \cup {PyNone} :
          /\ Start([op |-> "read_data", dir |-> dir, strict |-> FALSE], "rd_enter")
          /\ rd = RDFrame("data", s, e)
    \/ \E s \in DateArgs :
          /\ Start([op |-> "read_data", dir |-> [d \in Days |-> "none"],
                    strict |-> FALSE], "rd_enter")
          /\ rd = RDFrame("missing", s, PyNone)
    \/ \E dir \in [Days -> {"none", "one"}], s \in {PyInt(0)},
          e \in {PyNone, PyInt(MaxDays)}, a \in AttrArgs :
          /\ Start([op |-> "plot_hm", dir |-> dir, strict |-> FALSE, path |-> "data",
                    start |-> s, end |-> e, attr |-> a], "hm_enter")
          /\ rd = NoFrame
    \/ \E dir \in [Days -> {"none", "one"}], s \in {PyInt(0)},
          e \in {PyNone, PyInt(MaxDays)} :
          /\ Start([op |-> "plot_traj", dir |-> dir, strict |-> FALSE,
                    path |-> "data", start |-> s, end |-> e], "traj_enter")
          /\ rd = NoFrame
    \/ \E dir \in [Days -> {"none", "one"}], s \in {PyNone, PyInt(0)},
          e \in {PyNone, PyInt(MaxDays)}, a \in AttrArgs :
          /\ Start([op |-> "plot_ts", dir |-> dir, strict |-> FALSE, path |-> "data",
                    file |-> FileName("rtraj", 0, 1, "one"),
                    start |-> s, end |-> e, attr |-> a], "ts_enter")
          /\ rd = NoFrame

Next ==
    \/ call_get_freq_alias
    \/ call_equ_pot
    \/ call_process_metadata
    \/ call_read_traj
    \/ read_data_enter
    \/ read_data_glob
    \/ read_data_chdir
    \/ read_data_read
    \/ plot_hm_enter
    \/ plot_hm_body
    \/ plot_traj_enter
    \/ plot_traj_body
    \/ plot_ts_enter
    \/ plot_ts_attr
    \/ plot_ts_plot

Spec == Init /\ [][Next]_vars

(***************************************************************************)
(* The claims.                                                             *)
(***************************************************************************)
Done(op) == pc = "done" /\ call.op = op

\* The file of the call has the documented header layout.
Documented == call.file = FileOf(call.h, call.d)

\* The 1-based place of the first "trajectory number" line of a file.
FirstTrajectoryNumber(f) ==
    CHOOSE i \in 1..Len(f) :
        /\ f[i].kind = "trajectory number"
        /\ \A j \in 1..(i - 1) : f[j].kind # "trajectory number"

\* The trajectories read_traj stored in traj_list.
Stored(traj_list) == {k \in 1..Len(traj_list) : ~traj_list[k].isNone}

\* C1: get_freq_alias(1440) returns "1min", get_freq_alias(1) returns "D"
\* and get_freq_alias(24) returns a string that denotes one hour.
C1_FreqAliasDescriptor ==
    Done("get_freq_alias") =>
        /\ call.n = PyInt(1440) =>
              ret.status = "return" /\ ret.value = FreqStr("int", 1, 1, "min")
        /\ call.n = PyInt(1) =>
              ret.status = "return" /\ ret.value = FreqStr("none", 0, 1, "D")
        /\ call.n = PyInt(24) =>
              /\ ret.status = "return"
              /\ ret.value.type = "str"
              /\ ret.value.unit = "H"
              /\ ret.value.num = ret.value.den

\* C2: get_freq_alias raises TypeError for None, the float 3.141, a string
\* and a list.
C2_NonIntegerRaisesTypeError ==
    (Done("get_freq_alias")
        /\ call.n \in {PyNone, PyFloat(3141, 1000), PyStr, PyList})
    => (ret.status = "raise" /\ ret.exc = "TypeError")

\* C3: for a file of B blocks whose header declares T trajectories, the
\* decode loop ends by completing or by breaking, never by raising, and
\* traj_list then holds exactly the first min(T, B) blocks of the file, each
\* from its first row, and None after them.
C3_DecodeLoopStoresMinBlocks ==
    (Done("read_traj") /\ ret.locals.loop # "not reached") =>
        LET T == call.h.ntraj
            B == call.d.nblocks
            tl == ret.locals.traj_list
        IN  /\ ret.locals.loop \in {"complete", "break"}
            /\ Len(tl) = T
            /\ Stored(tl) = 1..Min(T, B)
            /\ \A k \in Stored(tl) :
                  /\ tl[k].rows[1].nums = <<k, 0>>
                  /\ Len(tl[k].rows) =
                        IF k < B THEN nts + 1
                        ELSE Min(call.d.lastRows + call.d.trail, nts + 1)
            /\ (T > B => ret.locals.loop = "break")

\* C3's case: the input runs out on a short final block before the declared
\* number of blocks is read, and the short block is kept.
C3_Witness ==
    /\ Done("read_traj")
    /\ ret.locals.loop = "break"
    /\ call.d.nblocks = 2
    /\ call.h.ntraj = 3
    /\ call.d.lastRows = 1
    /\ Stored(ret.locals.traj_list) = {1, 2}
    /\ Len(ret.locals.traj_list[2].rows) = 1

\* C4: process_metadata returns as offset the 0-based index of the first
\* "trajectory number" line, and read_traj skips the lines up to and
\* including that line.
\* It is stated for the files of the documented
\* header layout.
C4_OffsetIsTrajectoryNumberLine ==
    /\ (Done("process_metadata") /\ Documented) =>
          /\ ret.status = "return"
          /\ ret.value.count = FirstTrajectoryNumber(call.file) - 1
    /\ (Done("read_traj") /\ ret.locals.loop # "not reached") =>
          ret.locals.skip_rows = FirstTrajectoryNumber(call.file)

\* C4's case: a header whose pointers take two lines and that a blank line
\* ends, so that the offset counts three lines taken by next(f).
C4_Witness ==
    /\ Done("process_metadata")
    /\ Len(call.h.lengths) = 2
    /\ call.h.blanks = 1
    /\ ret.status = "return"
    /\ ret.value.count = 15

\* The cluster of the trajectory at position k of a table: the pointer of
\* the run of T div nclust positions that k falls in.
ClusterByPosition ==
    \A e \in {ret.value.df[k] : k \in 1..Len(ret.value.df)} :
        e.CLUSTER = call.h.ptrs[(e.position \div (call.h.ntraj \div call.h.nclust)) + 1]

\* The trajectories of the table labelled with cluster c.
Labelled(c) == {k \in 1..Len(ret.value.df) : ret.value.df[k].CLUSTER = c}

ClusterIds == {ret.value.df[k].CLUSTER : k \in 1..Len(ret.value.df)}

\* C5, as claimed: in the table read_traj builds, the cluster of a
\* trajectory is given by its position, and every cluster id labels exactly
\* total_trajectories / number_of_clusters trajectories.
C5_ClusterCountsExact ==
    (Done("read_traj") /\ ret.status = "return") =>
        /\ ClusterByPosition
        /\ \A c \in ClusterIds :
              Cardinality(Labelled(c)) * call.h.nclust = call.h.ntraj

\* C5, amended: the cluster of a trajectory is given by its position; and
\* when the file holds at least total_trajectories blocks,
\* total_trajectories is a multiple of number_of_clusters and the cluster
\* pointers are pairwise distinct, every cluster id labels exactly
\* total_trajectories / number_of_clusters trajectories.
C5_ClusterCountsWhenComplete ==
    (Done("read_traj") /\ ret.status = "return") =>
        /\ ClusterByPosition
        /\ ( /\ call.d.nblocks >= call.h.ntraj
             /\ call.h.ntraj % call.h.nclust = 0
             /\ \A i, j \in 1..call.h.nclust :
                   call.h.ptrs[i] = call.h.ptrs[j] => i = j )
           => \A c \in ClusterIds :
                 Cardinality(Labelled(c)) * call.h.nclust = call.h.ntraj

\* C5's case: a table of two clusters, one trajectory each.
C5_Witness ==
    /\ Done("read_traj")
    /\ ret.status = "return"
    /\ call.h.nclust = 2
    /\ call.h.ntraj = 2
    /\ call.d.nblocks >= 2
    /\ call.h.ptrs = <<1, 2>>
    /\ ClusterIds = {1, 2}
    /\ Len(ret.value.df) = 2

\* The files of the directory that a range of days matches.
Matched(first, last) ==
    {x \in Listing(call.dir) : x.prefix = "rtraj" /\ x.day \in first..last}

LastDay == IF rd.end_date.type = "NoneType" THEN rd.start_date.num
           ELSE rd.end_date.num

\* C6: read_data returns one (table, metadata) pair per file that matches a
\* day from start to end inclusive (the start day alone when end is None),
\* in ascending date order; a day without a file adds nothing and raises
\* nothing.  It is stated for dates given as YYYY-MM-DD and for the ranges
\* all of whose files parse.
C6_OnePairPerMatchingFileInDateOrder ==
    ( /\ Done("read_data")
      /\ isdir(rd.input_dir)
      /\ rd.start_date.type = "int"
      /\ rd.end_date.type \in {"NoneType", "int"}
      /\ \A x \in Matched(rd.start_date.num, LastDay) : x.kind # "single" )
    => /\ ret.status = "return"
       /\ Len(ret.value) = Cardinality(Matched(rd.start_date.num, LastDay))
       /\ \A d \in Days :
             Cardinality({k \in 1..Len(ret.value) :
                 ret.value[k].metadata["trajectory base time"].num = d})
             = Cardinality(Matched(rd.start_date.num, LastDay) \cap Matched(d, d))
       /\ \A i, j \in 1..Len(ret.value) :
             i < j => ret.value[i].metadata["trajectory base time"].num
                      <= ret.value[j].metadata["trajectory base time"].num

\* C6's case: a range of three days whose middle day has no file.
C6_Witness ==
    /\ Done("read_data")
    /\ ret.status = "return"
    /\ rd.start_date = PyInt(0)
    /\ rd.end_date = PyInt(2)
    /\ call.dir[0] = "one"
    /\ call.dir[1] = "none"
    /\ call.dir[2] = "two"
    /\ Len(ret.value) = 3

\* C7: metadata['cluster pointers'] is the list of the number_of_clusters
\* integers of the pointer lines in file order; the lines after them are
\* read as header lines again, and the offset counts every pointer line.
\* It is stated for the files of the documented header layout.
C7_ClusterPointersAsDeclared ==
    (Done("process_metadata") /\ Documented) =>
        /\ ret.status = "return"
        /\ ret.value.metadata["cluster pointers"] = PyIntList(call.h.ptrs)
        /\ Len(ret.value.metadata["cluster pointers"].items)
              = ret.value.metadata["number of clusters"].num
        /\ "3d trajectory" \in DOMAIN ret.value.metadata
        /\ ret.value.count = 9 + Len(call.h.lengths) + 3 + call.h.blanks

\* C7's case: two pointers, one per line, taken in file order.
C7_Witness ==
    /\ Done("process_metadata")
    /\ call.h.nclust = 2
    /\ call.h.lengths = <<1, 1>>
    /\ call.h.ptrs = <<2, 1>>
    /\ ret.status = "return"
    /\ ret.value.metadata["cluster pointers"].items = <<2, 1>>

\* C8: metadata['attribute types'] is a sequence of number_of_attributes
\* codes, for one attribute as for several, and read_traj maps every code
\* of ATTR to its name.
C8_AttributeTypesIsSequence ==
    /\ Done("process_metadata") =>
          /\ ret.status = "return"
          /\ ret.value.metadata["attribute types"].type = "list"
          /\ Len(ret.value.metadata["attribute types"].items)
                = ret.value.metadata["number of attributes"].num
    /\ (Done("read_traj") /\ UnknownCode(call.h.attrs) = 0) =>
          ret.exc # "TypeError"

\* The attribute names parsed from the first file, once the files are read.
ParsedNames == pl.result.value[1].metadata["attribute names"]

\* C9: when the attribute asked for is in no parsed attribute name, plot_hm
\* and main of plot_ts raise a ValueError that names it and plot nothing.
C9_UnmatchedAttributeRaises ==
    ( /\ pc = "done"
      /\ call.op \in {"plot_hm", "plot_ts"}
      /\ call.attr.type = "str"
      /\ pl.result.status = "return"
      /\ Len(pl.result.value) > 0
      /\ \A k \in 1..Len(ParsedNames) : ~IsSubstring(call.attr.text, ParsedNames[k]) )
    => /\ ret.status = "raise"
       /\ ret.exc = "ValueError"
       /\ ret.msg = call.attr.text
       /\ ~pl.plotted

\* C10: equ_pot raises ValueError, with nothing computed, when t <= 0, q < 0,
\* q >= 1 or p <= 0, and returns a value otherwise.
C10_EquPotDomain ==
    Done("equ_pot") =>
        IF \/ call.t.num <= 0
           \/ call.q.num < 0
           \/ call.q.num >= call.q.den
           \/ call.p.num <= 0
        THEN ret.status = "raise" /\ ret.exc = "ValueError" /\ ret.value = PyNone
        ELSE ret.status = "return" /\ ret.value = EquPotValue(call.t, call.q, call.p)

\* C10's case: a specific humidity of exactly 1 with a valid temperature and
\* pressure.
C10_Witness ==
    /\ Done("equ_pot")
    /\ call.t = PyInt(273)
    /\ call.q = PyInt(1)
    /\ call.p = PyInt(1000)
    /\ ret.status = "raise"
    /\ ret.exc = "ValueError"

\* The lines of a kind that the header of a file holds, by 1-based place.
HeaderLines(f, kind) ==
    {k \in 1..(FirstTrajectoryNumber(f) - 1) : f[k].kind = kind}

\* C11: when the "data interval" line of the header holds a number of
\* integers other than 2 (none, one, three or more), process_metadata raises
\* and returns no metadata.
C11_DataIntervalTokenCount ==
    ( /\ Done("process_metadata")
      /\ \E k \in HeaderLines(call.file, "data interval") :
             Len(call.file[k].nums) # 2 )
    => /\ ret.status = "raise"
       /\ ret.value = PyNone

\* C11's case: a "data interval" line of one integer, on which len() of
\* the bare integer raises.
C11_Witness ==
    /\ Done("process_metadata")
    /\ \E k \in HeaderLines(call.file, "data interval") :
           call.file[k].nums = <<3>>
    /\ ret.status = "raise"
    /\ ret.exc = "TypeError"

\* The "cluster pointers" marker of the header comes before every "number
\* of clusters" line of it.
MarkerBeforeCount(f) ==
    \E k \in HeaderLines(f, "cluster pointers") :
        \A j \in HeaderLines(f, "number of clusters") : k < j

\* C13: when the "cluster pointers" marker comes before any "number of
\* clusters" line, process_metadata raises and returns no metadata, and on a
\* header whose earlier lines are sound the error is the lookup of the
\* undeclared count at the marker.
C13_PointersBeforeCountFails ==
    (Done("process_metadata") /\ MarkerBeforeCount(call.file)) =>
        /\ ret.status = "raise"
        /\ ret.value = PyNone
        /\ (\A k \in HeaderLines(call.file, "data interval") :
                Len(call.file[k].nums) = 2)
           => (ret.exc = "KeyError" /\ ret.msg = "number of clusters")

\* C13's case: a header that declares its number of clusters after the
\* pointer lines.
C13_Witness ==
    /\ Done("process_metadata")
    /\ MarkerBeforeCount(call.file)
    /\ HeaderLines(call.file, "number of clusters") # {}
    /\ ret.status = "raise"
    /\ ret.exc = "KeyError"

\* The release times of a file: one per trajectory of a cluster, from the
\* base date of the file.
ReleaseTimes ==
    date_range(call.h.base, call.h.ntraj \div call.h.nclust, PyNone)

\* C12: for a file of the documented layout that holds a block, whose
\* trajectories divide evenly among its clusters, read_traj builds the
\* table, for one cluster as for several; the trajectory at position k has
\* the key (cluster_pointers[k div m], release_times[k mod m]) with
\* m = total_trajectories / number_of_clusters, and its rows are the rows
\* of its block in file order.
C12_KeyedByClusterAndReleaseTime ==
    ( /\ Done("read_traj")
      /\ Documented
      /\ Len(call.h.attrs) > 1
      /\ UnknownCode(call.h.attrs) = 0
      /\ call.h.ntraj % call.h.nclust = 0
      /\ call.d.nblocks >= 1 )
    => /\ ret.status = "return"
       /\ \A e \in {ret.value.df[k] : k \in 1..Len(ret.value.df)} :
             LET m == call.h.ntraj \div call.h.nclust
             IN  /\ e.CLUSTER = call.h.ptrs[(e.position \div m) + 1]
                 /\ e.READ = ReleaseTimes[(e.position % m) + 1]
                 /\ e.rows = ret.locals.traj_list[e.position + 1].rows
                 /\ \A i \in 1..Len(e.rows) :
                       e.rows[i].kind = "row" =>
                           e.rows[i].nums = <<e.position + 1, i - 1>>

\* read_data has been called and has left, by returning or by raising.
ReadDataLeft ==
    /\ rd.input_dir # ""
    /\ pc \notin {"rd_enter", "rd_glob", "rd_chdir", "rd_read"}

\* C14: once read_data has returned or raised, whatever the error, the
\* working directory is the one the call started in, and the files are
\* parsed from that directory.
C14_WorkingDirectoryRestored ==
    /\ ReadDataLeft => cwd = "home"
    /\ pc = "rd_read" => cwd = "home"

\* C15: when read_data hands a list of k >= 1 (table, metadata) pairs to
\* plot_hm or plot_traj, the caller's unpacking succeeds and leaves it with
\* the k tables as data and the k mappings as metadata: data[i] is the
\* table of file i and metadata[i] its header mapping.
C15_ReadDataShapeConsumed ==
    ( /\ pc = "done"
      /\ call.op \in {"plot_hm", "plot_traj"}
      /\ pl.result.status = "return"
      /\ Len(pl.result.value) >= 1 )
    => /\ Unpack(pl.result.value).status = "return"
       /\ \A i \in 0..(Len(pl.result.value) - 1) :
             /\ TupleGet(Unpack(pl.result.value).value.data, i)
                   = [type |-> "DataFrame", v |-> pl.result.value[i + 1].df]
             /\ TupleGet(Unpack(pl.result.value).value.metadata, i)
                   = [type |-> "dict", v |-> pl.result.value[i + 1].metadata]

=============================================================================
